---------------------------- MODULE Spec2Model ----------------------------
(***************************************************************************)
(* A model of thermotools' numerical kernels (src/ext/util/_util.c):       *)
(* _mixed_sort, _kahan_summation(_step), the _logsumexp family,            *)
(* _get_therm_state_break_points and _renormalize_transition_matrix.       *)
(*                                                                         *)
(* A C double is modelled as a binary floating-point number with a         *)
(* Precision-bit significand, an unbounded exponent, round-to-nearest-even *)
(* and the IEEE-754 special values -inf, +inf and NaN.  The sign of zero   *)
(* is not modelled.  IEEE double is the instance Precision = 53.           *)
(***************************************************************************)
EXTENDS Integers, Sequences, FiniteSets, TLC

(***************************************************************************)
(* Bounds of the model.                                                    *)
(***************************************************************************)
\* significand width of the modelled floating-point format, in bits
Precision == 4

(***************************************************************************)
(* Floating-point values.                                                  *)
(***************************************************************************)
RECURSIVE Pow2(_)
Pow2(k) == IF k <= 0 THEN 1 ELSE 2 * Pow2(k - 1)

Abs(a) == IF a < 0 THEN -a ELSE a

Sign(a) == IF a < 0 THEN -1 ELSE IF a > 0 THEN 1 ELSE 0

\* number of bits of the natural number a
RECURSIVE BitLen(_)
BitLen(a) == IF a = 0 THEN 0 ELSE 1 + BitLen(a \div 2)

\* the finite value m * 2^e, in canonical form (m odd, or m = e = 0)
RECURSIVE Fin(_, _)
Fin(m, e) ==
    IF m = 0 THEN [cls |-> "fin", m |-> 0, e |-> 0]
    ELSE IF m % 2 = 0 THEN Fin(m \div 2, e + 1)
    ELSE [cls |-> "fin", m |-> m, e |-> e]

NegInf == [cls |-> "-inf", m |-> 0, e |-> 0]

PosInf == [cls |-> "+inf", m |-> 0, e |-> 0]

NaN == [cls |-> "nan", m |-> 0, e |-> 0]

Zero == Fin(0, 0)

One == Fin(1, 0)

IsFin(a) == a.cls = "fin"

IsNaN(a) == a.cls = "nan"

\* m * 2^e rounded to a Precision-bit significand, ties to even
Rnd(m, e) ==
    LET a    == Abs(m)
        drop == BitLen(a) - Precision
    IN  IF drop <= 0 THEN Fin(m, e)
        ELSE LET q    == a \div Pow2(drop)
                 rem  == a % Pow2(drop)
                 half == Pow2(drop - 1)
                 up   == (rem > half) \/ (rem = half /\ q % 2 = 1)
                 q2   == IF up THEN q + 1 ELSE q
             IN  Fin(Sign(m) * q2, e + drop)

\* the integer k as a double
Dbl(k) == Rnd(k, 0)

\* the sign of a non-NaN value: -1, 0 or 1
SignOf(a) ==
    IF a.cls = "-inf" THEN -1 ELSE IF a.cls = "+inf" THEN 1 ELSE Sign(a.m)

FNeg(a) ==
    IF a.cls = "-inf" THEN PosInf
    ELSE IF a.cls = "+inf" THEN NegInf
    ELSE IF IsNaN(a) THEN NaN
    ELSE Fin(-a.m, a.e)

\* a + b
FAdd(a, b) ==
    IF IsNaN(a) \/ IsNaN(b) THEN NaN
    ELSE IF ~IsFin(a) THEN (IF ~IsFin(b) /\ b # a THEN NaN ELSE a)
    ELSE IF ~IsFin(b) THEN b
    ELSE LET e0 == IF a.e < b.e THEN a.e ELSE b.e
         IN  Rnd(a.m * Pow2(a.e - e0) + b.m * Pow2(b.e - e0), e0)

\* a - b
FSub(a, b) == FAdd(a, FNeg(b))

\* a / b
FDiv(a, b) ==
    IF IsNaN(a) \/ IsNaN(b) THEN NaN
    ELSE IF ~IsFin(a) THEN
        (IF ~IsFin(b) THEN NaN
         ELSE IF SignOf(a) * (IF b.m < 0 THEN -1 ELSE 1) < 0 THEN NegInf ELSE PosInf)
    ELSE IF ~IsFin(b) THEN Zero
    ELSE IF b.m = 0 THEN
        (IF a.m = 0 THEN NaN ELSE IF a.m < 0 THEN NegInf ELSE PosInf)
    ELSE LET s   == Precision + 2 + BitLen(Abs(b.m))
             num == Abs(a.m) * Pow2(s)
             q   == num \div Abs(b.m)
             st  == IF num % Abs(b.m) = 0 THEN 0 ELSE 1
         IN  Rnd(Sign(a.m) * Sign(b.m) * (2 * q + st), a.e - b.e - s - 1)

\* a < b
Lt(a, b) ==
    IF IsNaN(a) \/ IsNaN(b) THEN FALSE
    ELSE IF a = b THEN FALSE
    ELSE IF a.cls = "-inf" \/ b.cls = "+inf" THEN TRUE
    ELSE IF a.cls = "+inf" \/ b.cls = "-inf" THEN FALSE
    ELSE LET e0 == IF a.e < b.e THEN a.e ELSE b.e
         IN  a.m * Pow2(a.e - e0) < b.m * Pow2(b.e - e0)

\* a > b
Gt(a, b) == Lt(b, a)

\* a == b
Eq(a, b) == ~IsNaN(a) /\ ~IsNaN(b) /\ a = b

\* a >= b
Ge(a, b) == Gt(a, b) \/ Eq(a, b)

(***************************************************************************)
(* _mixed_sort, as a machine that takes one step per loop test or call.    *)
(* A state st holds the caller's buffer (array, indexed from 0), the       *)
(* running activation (L, R, l, r, swap), the activations waiting for a    *)
(* callee (stack) and the position in the code (pc).  Three fields only    *)
(* observe the run: acc (the indices read or written so far), calls (the   *)
(* activations entered, with the branch each took) and recs (the recursive *)
(* calls made, with the activation and the value of l that made them).     *)
(* An access outside the buffer is undefined behaviour: the machine stops  *)
(* in pc = "fault" with the index recorded in acc.                         *)
(***************************************************************************)
\* the constant of the test R - L > 25
QuickThreshold == 25

InBuf(st, S) == S \subseteq DOMAIN st.array

\* st after the accesses S, continuing as nxt when all of S is in the buffer
Access(st, S, nxt) ==
    IF InBuf(st, S) THEN [nxt EXCEPT !.acc = st.acc \cup S]
    ELSE [st EXCEPT !.acc = st.acc \cup S, !.pc = "fault"]

\* a slip: the number of elements R - L + 1 compared with the constant
UseQuicksortByCount(L, R) == R - L + 1 > QuickThreshold

\* if(R - L > 25)
UseQuicksort(L, R) == R - L > QuickThreshold

\* entry of _mixed_sort(array, L, R): the choice of the branch
SortEnter(st) ==
    IF UseQuicksort(st.L, st.R)
    THEN [st EXCEPT !.l = st.L - 1, !.r = st.R, !.pc = "scan_l",
                    !.calls = @ \cup {[L |-> st.L, R |-> st.R, path |-> "quicksort"]}]
    ELSE [st EXCEPT !.l = st.L + 1, !.pc = "ins_outer",
                    !.calls = @ \cup {[L |-> st.L, R |-> st.R, path |-> "insertion"]}]

\* the condition of while(array[++l] < array[R]), l already incremented
ScanLCond(array, l, R) == Lt(array[l], array[R])

\* one test of while(array[++l] < array[R]);
SortScanL(st) ==
    LET l2 == st.l + 1
    IN  Access(st, {l2, st.R},
               [st EXCEPT !.l = l2,
                          !.pc = IF InBuf(st, {l2, st.R}) /\ ScanLCond(st.array, l2, st.R)
                                 THEN "scan_l" ELSE "scan_r"])

\* a slip: the scan down from R without its bound r > l
ScanRCondUnbounded(array, l, r, R) == Gt(array[r], array[R])

\* the condition of while((array[--r] > array[R]) && (r > l)), r already decremented
ScanRCond(array, l, r, R) == Gt(array[r], array[R]) /\ (r > l)

\* one test of while((array[--r] > array[R]) && (r > l));
SortScanR(st) ==
    LET r2 == st.r - 1
    IN  Access(st, {r2, st.R},
               [st EXCEPT !.r = r2,
                          !.pc = IF InBuf(st, {r2, st.R}) /\ ScanRCond(st.array, st.l, r2, st.R)
                                 THEN "scan_r" ELSE "part_test"])

\* if(l >= r) break; else exchange array[l] and array[r] and scan on
SortPartTest(st) ==
    IF st.l >= st.r THEN [st EXCEPT !.pc = "pivot"]
    ELSE Access(st, {st.l, st.r},
                [st EXCEPT !.swap = st.array[st.l],
                           !.array = [st.array EXCEPT ![st.l] = st.array[st.r],
                                                      ![st.r] = st.array[st.l]],
                           !.pc = "scan_l"])

\* the range of the first recursive call
FirstRange(L, l, R) == [L |-> L, R |-> l - 1]

\* the range of the second recursive call
SecondRange(L, l, R) == [L |-> l + 1, R |-> R]

\* the activation st calling _mixed_sort on range rg, to continue at pc back
SortRecurse(st, rg, back) ==
    [st EXCEPT !.stack = Append(@, [L |-> st.L, R |-> st.R, l |-> st.l, pc |-> back]),
               !.L = rg.L, !.R = rg.R, !.pc = "enter",
               !.recs = @ \cup {[L |-> st.L, R |-> st.R, l |-> st.l,
                                 cL |-> rg.L, cR |-> rg.R]}]

\* the pivot goes to position l, then _mixed_sort(array, L, l - 1)
SortPivot(st) ==
    Access(st, {st.l, st.R},
           SortRecurse([st EXCEPT !.swap = st.array[st.l],
                                  !.array = [st.array EXCEPT ![st.l] = st.array[st.R],
                                                             ![st.R] = st.array[st.l]]],
                       FirstRange(st.L, st.l, st.R), "second"))

\* _mixed_sort(array, l + 1, R)
SortSecond(st) == SortRecurse(st, SecondRange(st.L, st.l, st.R), "return")

\* for(l=L+1; l<=R; ++l) { swap = array[l]; r = l - 1; ...
SortInsOuter(st) ==
    IF st.l <= st.R
    THEN Access(st, {st.l},
                [st EXCEPT !.swap = st.array[st.l], !.r = st.l - 1, !.pc = "ins_inner"])
    ELSE [st EXCEPT !.pc = "return"]

\* a slip: r > L for r >= L, so that nothing is ever moved below array[L]
InsCondStopsEarly(array, swap, r, L) == (r > L) /\ Lt(swap, array[r])

\* the condition (r >= L) && (swap < array[r]); array[r] is read only when r >= L
InsCond(array, swap, r, L) == (r >= L) /\ Lt(swap, array[r])

\* one test of the inner loop: shift array[r] up, or store swap and take the next l
SortInsInner(st) ==
    LET rd == IF st.r >= st.L THEN {st.r} ELSE {}
    IN  IF InBuf(st, rd) /\ InsCond(st.array, st.swap, st.r, st.L)
        THEN Access(st, {st.r, st.r + 1},
                    [st EXCEPT !.array = [st.array EXCEPT ![st.r + 1] = st.array[st.r]],
                               !.r = st.r - 1])
        ELSE Access(st, rd \cup {st.r + 1},
                    [st EXCEPT !.array = [st.array EXCEPT ![st.r + 1] = st.swap],
                               !.l = st.l + 1, !.pc = "ins_outer"])

\* the end of an activation: back to the caller, or out of the outermost call
SortReturn(st) ==
    IF st.stack = <<>> THEN [st EXCEPT !.pc = "done"]
    ELSE LET f == st.stack[Len(st.stack)]
         IN  [st EXCEPT !.stack = SubSeq(@, 1, Len(@) - 1),
                        !.L = f.L, !.R = f.R, !.l = f.l, !.pc = f.pc]

SortStep(st) ==
    CASE st.pc = "enter"     -> SortEnter(st)
      [] st.pc = "scan_l"    -> SortScanL(st)
      [] st.pc = "scan_r"    -> SortScanR(st)
      [] st.pc = "part_test" -> SortPartTest(st)
      [] st.pc = "pivot"     -> SortPivot(st)
      [] st.pc = "second"    -> SortSecond(st)
      [] st.pc = "ins_outer" -> SortInsOuter(st)
      [] st.pc = "ins_inner" -> SortInsInner(st)
      [] st.pc = "return"    -> SortReturn(st)
      [] OTHER               -> st

\* the state at the call _mixed_sort(array, L, R); l, r and swap are not yet set
SortStart(array, L, R) ==
    [array |-> array, L |-> L, R |-> R, l |-> 0, r |-> 0, swap |-> Zero,
     stack |-> <<>>, pc |-> "enter", acc |-> {}, calls |-> {}, recs |-> {}]

RECURSIVE SortRun(_)
SortRun(st) == IF st.pc \in {"done", "fault"} THEN st ELSE SortRun(SortStep(st))

\* the buffer after the call _mixed_sort(array, L, R)
_mixed_sort(array, L, R) == SortRun(SortStart(array, L, R)).array

(***************************************************************************)
(* Direct summation schemes.  acc holds the four doubles sum, err, loc and *)
(* tmp: the caller's accumulator of the step form, the locals of the batch *)
(* form.                                                                   *)
(***************************************************************************)
\* a slip: the error term is not carried into the next value (loc = new_value)
KahanStepUncompensated(new_value, acc) ==
    LET loc == new_value
        tmp == FAdd(acc.sum, loc)
        err == FSub(FSub(tmp, acc.sum), loc)
    IN  [sum |-> tmp, err |-> err, loc |-> loc, tmp |-> tmp]

\* _kahan_summation_step(new_value, &sum, &err, &loc, &tmp)
_kahan_summation_step(new_value, acc) ==
    LET loc == FSub(new_value, acc.err)
        tmp == FAdd(acc.sum, loc)
        err == FSub(FSub(tmp, acc.sum), loc)
    IN  [sum |-> tmp, err |-> err, loc |-> loc, tmp |-> tmp]

\* the locals of _kahan_summation at the declaration; loc and tmp are not yet set
KahanLocals == [sum |-> Zero, err |-> Zero, loc |-> NaN, tmp |-> NaN]

\* the locals of _kahan_summation(array, size) after the first i passes of its loop
RECURSIVE KahanLoop(_, _)
KahanLoop(array, i) ==
    IF i <= 0 THEN KahanLocals
    ELSE LET b   == KahanLoop(array, i - 1)
             loc == FSub(array[i - 1], b.err)
             tmp == FAdd(b.sum, loc)
             err == FSub(FSub(tmp, b.sum), loc)
             sum == tmp
         IN  [sum |-> sum, err |-> err, loc |-> loc, tmp |-> tmp]

\* _kahan_summation(array, size)
_kahan_summation(array, size) == KahanLoop(array, size).sum

(***************************************************************************)
(* Logspace summation schemes.  exp and log are the C library's, not this  *)
(* repository's.  Their values at 0, 1 and the special values are the ones *)
(* C99 (Annex F) fixes: exp(-inf) = 0, exp(+inf) = +inf, exp(0) = 1,       *)
(* log(0) = -inf, log(1) = 0, log(x < 0) = NaN, log(+inf) = +inf, and NaN  *)
(* for NaN.  At the other finite arguments the model takes base 2 and      *)
(* interpolates linearly between the powers of two, rounded as every other *)
(* operation: increasing, and Log the inverse of Exp.  Nothing here rests  *)
(* on those values.  Each function yields its return value (ret), the      *)
(* array as it leaves it, and how often it evaluated exp (nexp) and log    *)
(* (nlog).                                                                 *)
(***************************************************************************)
\* exp(x)
Exp(x) ==
    IF IsNaN(x) THEN NaN
    ELSE IF x.cls = "-inf" THEN Zero
    ELSE IF x.cls = "+inf" THEN PosInf
    ELSE IF x.e >= 0 THEN Fin(1, x.m * Pow2(x.e))
    ELSE LET d == Pow2(-x.e)
         IN  Rnd(d + (x.m % d), (x.m \div d) + x.e)

\* log(y)
Log(y) ==
    IF IsNaN(y) THEN NaN
    ELSE IF y.cls = "+inf" THEN PosInf
    ELSE IF y.cls = "-inf" THEN NaN
    ELSE IF y.m < 0 THEN NaN
    ELSE IF y.m = 0 THEN NegInf
    ELSE LET k == BitLen(y.m) - 1
         IN  Rnd((y.e + k) * Pow2(k) + y.m - Pow2(k), -k)

\* what a function that returns without touching the array or the library yields
LseReturn(ret, array) == [ret |-> ret, array |-> array, nexp |-> 0, nlog |-> 0]

\* a slip: INFINITY == array_max, the sign lost
MaxIsPosInf(array_max) == Eq(PosInf, array_max)

\* -INFINITY == array_max
MaxIsNegInf(array_max) == Eq(NegInf, array_max)

\* sum after the first i passes of for(i=0; i<size; ++i) sum += exp(array[i] - array_max)
RECURSIVE LseSum(_, _, _)
LseSum(array, array_max, i) ==
    IF i <= 0 THEN Zero
    ELSE FAdd(LseSum(array, array_max, i - 1), Exp(FSub(array[i - 1], array_max)))

\* _logsumexp(array, size, array_max)
_logsumexp(array, size, array_max) ==
    IF 0 = size THEN LseReturn(NegInf, array)
    ELSE IF MaxIsNegInf(array_max) THEN LseReturn(NegInf, array)
    ELSE [ret |-> FAdd(array_max, Log(LseSum(array, array_max, size))),
          array |-> array, nexp |-> size, nlog |-> 1]

\* the array after for(i=0; i<size; ++i) array[i] = exp(array[i] - array_max)
ExpInPlace(array, size, array_max) ==
    [i \in DOMAIN array |->
        IF i < size THEN Exp(FSub(array[i], array_max)) ELSE array[i]]

\* _logsumexp_kahan_inplace(array, size, array_max)
_logsumexp_kahan_inplace(array, size, array_max) ==
    IF 0 = size THEN LseReturn(NegInf, array)
    ELSE IF MaxIsNegInf(array_max) THEN LseReturn(NegInf, array)
    ELSE LET terms == ExpInPlace(array, size, array_max)
         IN  [ret |-> FAdd(array_max, Log(_kahan_summation(terms, size))),
              array |-> terms, nexp |-> size, nlog |-> 1]

\* _logsumexp_sort_inplace(array, size)
_logsumexp_sort_inplace(array, size) ==
    IF 0 = size THEN LseReturn(NegInf, array)
    ELSE LET sorted == _mixed_sort(array, 0, size - 1)
         IN  _logsumexp(sorted, size, sorted[size - 1])

\* _logsumexp_sort_kahan_inplace(array, size)
_logsumexp_sort_kahan_inplace(array, size) ==
    IF 0 = size THEN LseReturn(NegInf, array)
    ELSE LET sorted == _mixed_sort(array, 0, size - 1)
         IN  _logsumexp_kahan_inplace(sorted, size, sorted[size - 1])

\* _logsumexp_pair(a, b); it has no array
_logsumexp_pair(a, b) ==
    IF Eq(NegInf, a) /\ Eq(NegInf, b) THEN LseReturn(NegInf, <<>>)
    ELSE IF Gt(b, a)
    THEN [ret |-> FAdd(b, Log(FAdd(One, Exp(FSub(a, b))))),
          array |-> <<>>, nexp |-> 1, nlog |-> 1]
    ELSE [ret |-> FAdd(a, Log(FAdd(One, Exp(FSub(b, a))))),
          array |-> <<>>, nexp |-> 1, nlog |-> 1]

(***************************************************************************)
(* Counting states and transitions.  A state st of the call of             *)
(* _get_therm_state_break_points holds its arguments and locals.           *)
(***************************************************************************)
\* int i, K, o = 1; break_points[0] = 0; K = T_x[0]; and i = 1 of the loop
BpEnter(st) ==
    [st EXCEPT !.o = 1, !.break_points = [@ EXCEPT ![0] = 0], !.K = st.T_x[0],
               !.i = 1, !.pc = "loop"]

\* a slip: the label compared with the first label, as if K were never updated
NewRunSinceStart(T_x, i, K) == T_x[i] # T_x[0]

\* T_x[i] != K
NewRun(T_x, i, K) == T_x[i] # K

\* one pass of for(i=1; i<seq_length; ++i)
BpPass(st) ==
    IF NewRun(st.T_x, st.i, st.K)
    THEN [st EXCEPT !.K = st.T_x[st.i], !.break_points = [@ EXCEPT ![st.o] = st.i],
                    !.o = st.o + 1, !.i = st.i + 1]
    ELSE [st EXCEPT !.i = st.i + 1]

\* return o
BpReturn(st) == [st EXCEPT !.ret = st.o, !.pc = "done"]

(***************************************************************************)
(* Transition matrix renormalization.  p is the flattened matrix, indexed  *)
(* 0 .. n*n - 1 row by row; scratch_M has n entries.                       *)
(***************************************************************************)
\* scratch_M after for(j=0; j<n; ++j) scratch_M[j] = p[i * n + j]
CopyRow(p, n, scratch_M, i) ==
    [j \in DOMAIN scratch_M |-> IF j < n THEN p[i * n + j] ELSE scratch_M[j]]

\* a slip: max_sum = sum, the sum of the last row
LastSum(max_sum, sum) == sum

\* max_sum = (max_sum > sum) ? max_sum : sum
LargerSum(max_sum, sum) == IF Gt(max_sum, sum) THEN max_sum ELSE sum

\* scratch_M and max_sum after the first i rows of the first loop
RECURSIVE FirstPass(_, _, _, _)
FirstPass(p, n, scratch_M, i) ==
    IF i <= 0 THEN [scratch_M |-> scratch_M, max_sum |-> Zero]
    ELSE LET prev   == FirstPass(p, n, scratch_M, i - 1)
             sorted == _mixed_sort(CopyRow(p, n, prev.scratch_M, i - 1), 0, n - 1)
             sum    == _kahan_summation(sorted, n)
         IN  [scratch_M |-> sorted, max_sum |-> LargerSum(prev.max_sum, sum)]

\* a slip: 0.0 > max_sum, so that a largest row sum of 0 divides by 0
DegenerateStrict(max_sum) == Gt(Zero, max_sum)

\* if(0.0 >= max_sum) return
Degenerate(max_sum) == Ge(Zero, max_sum)

\* p and scratch_M after the first j passes of the inner loop of row i:
\*   p[i * n + j] /= max_sum;
\*   if(i == j) scratch_M[i] = 0.0; else scratch_M[i] = p[i * n + j];
RECURSIVE ScaleRow(_, _, _, _, _, _)
ScaleRow(p, n, scratch_M, max_sum, i, j) ==
    IF j <= 0 THEN [p |-> p, scratch_M |-> scratch_M]
    ELSE LET prev == ScaleRow(p, n, scratch_M, max_sum, i, j - 1)
             c    == j - 1
             q    == FDiv(prev.p[i * n + c], max_sum)
         IN  [p |-> [prev.p EXCEPT ![i * n + c] = q],
              scratch_M |-> [prev.scratch_M EXCEPT ![i] = IF i = c THEN Zero ELSE q]]

\* p and scratch_M after the first i rows of the second loop
RECURSIVE SecondPass(_, _, _, _, _)
SecondPass(p, n, scratch_M, max_sum, i) ==
    IF i <= 0 THEN [p |-> p, scratch_M |-> scratch_M]
    ELSE LET prev   == SecondPass(p, n, scratch_M, max_sum, i - 1)
             row    == i - 1
             scaled == ScaleRow(prev.p, n, prev.scratch_M, max_sum, row, n)
             sorted == _mixed_sort(scaled.scratch_M, 0, n - 1)
             diag   == FSub(One, _kahan_summation(sorted, n))
         IN  [p |-> [scaled.p EXCEPT ![row * n + row] = diag], scratch_M |-> sorted]

\* _renormalize_transition_matrix(p, n_conf_states, scratch_M): p and scratch_M
\* as the call leaves them, and the max_sum it computed
_renormalize_transition_matrix(p, n_conf_states, scratch_M) ==
    LET first == FirstPass(p, n_conf_states, scratch_M, n_conf_states)
    IN  IF Degenerate(first.max_sum)
        THEN [p |-> p, scratch_M |-> first.scratch_M, max_sum |-> first.max_sum]
        ELSE LET second == SecondPass(p, n_conf_states, first.scratch_M,
                                      first.max_sum, n_conf_states)
             IN  [p |-> second.p, scratch_M |-> second.scratch_M,
                  max_sum |-> first.max_sum]

(***************************************************************************)
(* State.  Each kernel is a call-and-return function without state of its  *)
(* own: a variable holds the caller's buffers and the position of one call *)
(* of one kernel, and is idle in the specifications of the other kernels.  *)
(***************************************************************************)
VARIABLES
    sortIn,   \* the buffer and the range handed to _mixed_sort
    sort,     \* the state of the call of _mixed_sort
    kh,       \* a caller of the two forms of Kahan summation
    lse,      \* a call of one function of the _logsumexp family
    bp,       \* the state of the call of _get_therm_state_break_points
    rn        \* a caller's matrix and scratch buffer, renormalized in place

vars == <<sortIn, sort, kh, lse, bp, rn>>

Idle == [pc |-> "idle"]

(***************************************************************************)
(* Bounds of the inputs of _mixed_sort.                                    *)
(***************************************************************************)
\* the buffer holds array[i] = (Mul * i) % Mod, or that order reversed, Mul <= MaxMul
MaxMul == 3

\* elements of the buffer on each side of the range [L, R], when there are any
Pad == 1

SortMods == {2, 3, 5, 7, 11, 2 * QuickThreshold + 11}

\* lengths of the range: empty, short, around the threshold, and long enough
\* that a partition is partitioned again
SortLens == {0, 1, 2, 3, QuickThreshold, QuickThreshold + 1, QuickThreshold + 2,
             QuickThreshold + 3, QuickThreshold + 15, 2 * QuickThreshold + 10}

SortInput(len, pad, mul, mod, rev) ==
    LET n == len + 2 * pad
    IN  [array |-> [i \in 0 .. n - 1 |->
                       Dbl(((IF rev THEN n - 1 - i ELSE i) * mul) % mod)],
         L |-> pad, R |-> pad + len - 1]

SortInputs ==
    {SortInput(len, pad, mul, mod, rev) :
        len \in SortLens, pad \in {0, Pad}, mul \in 0 .. MaxMul,
        mod \in SortMods, rev \in BOOLEAN}

SortInit ==
    /\ sortIn \in SortInputs
    /\ sort = SortStart(sortIn.array, sortIn.L, sortIn.R)
    /\ kh = Idle
    /\ lse = Idle
    /\ bp = Idle
    /\ rn = Idle

SortAt(label, after) ==
    /\ sort.pc = label
    /\ sort' = after
    /\ UNCHANGED <<sortIn, kh, lse, bp, rn>>

Enter == SortAt("enter", SortEnter(sort))

ScanL == SortAt("scan_l", SortScanL(sort))

ScanR == SortAt("scan_r", SortScanR(sort))

PartTest == SortAt("part_test", SortPartTest(sort))

Pivot == SortAt("pivot", SortPivot(sort))

Second == SortAt("second", SortSecond(sort))

InsOuter == SortAt("ins_outer", SortInsOuter(sort))

InsInner == SortAt("ins_inner", SortInsInner(sort))

Return == SortAt("return", SortReturn(sort))

SortNext ==
    \/ Enter
    \/ ScanL
    \/ ScanR
    \/ PartTest
    \/ Pivot
    \/ Second
    \/ InsOuter
    \/ InsInner
    \/ Return

SortSpec == SortInit /\ [][SortNext]_vars

(***************************************************************************)
(* A caller of Kahan summation: it feeds array[0], array[1], ... to the    *)
(* step form, starting from sum = 0 and err = 0 with loc and tmp holding   *)
(* whatever they held, and then calls the batch form on the same array.    *)
(***************************************************************************)
\* the values summed are k and k * 2^Precision, |k| <= MaxKahanVal
MaxKahanVal == 2

\* the longest array summed
MaxKahanLen == 3

KahanVals ==
    {Dbl(k) : k \in -MaxKahanVal .. MaxKahanVal}
        \cup {Fin(k, Precision) : k \in -MaxKahanVal .. MaxKahanVal}

KahanInit ==
    /\ \E size \in 0 .. MaxKahanLen :
       \E array \in [0 .. size - 1 -> KahanVals] :
       \E junk \in {Zero, NaN} :
           kh = [pc |-> "step", array |-> array, size |-> size, i |-> 0,
                 acc |-> [sum |-> Zero, err |-> Zero, loc |-> junk, tmp |-> junk],
                 ret |-> NaN]
    /\ sortIn = Idle
    /\ sort = Idle
    /\ lse = Idle
    /\ bp = Idle
    /\ rn = Idle

\* one call of the step form, on the next value
KahanStep ==
    /\ kh.pc = "step"
    /\ kh.i < kh.size
    /\ kh' = [kh EXCEPT !.acc = _kahan_summation_step(kh.array[kh.i], kh.acc),
                        !.i = kh.i + 1]
    /\ UNCHANGED <<sortIn, sort, lse, bp, rn>>

\* the call of the batch form, after the last value
KahanBatch ==
    /\ kh.pc = "step"
    /\ kh.i = kh.size
    /\ kh' = [kh EXCEPT !.ret = _kahan_summation(kh.array, kh.size), !.pc = "done"]
    /\ UNCHANGED <<sortIn, sort, lse, bp, rn>>

KahanNext ==
    \/ KahanStep
    \/ KahanBatch

KahanSpec == KahanInit /\ [][KahanNext]_vars

(***************************************************************************)
(* A call of one function of the _logsumexp family.  The array holds -inf  *)
(* and small integers; size is the length of the array, or 0; array_max is *)
(* whatever the caller supplies.                                           *)
(***************************************************************************)
\* the finite values of the arrays are the integers k, |k| <= MaxLog
MaxLog == 1

\* the longest array
MaxLseLen == 3

LseVals == {NegInf} \cup {Dbl(k) : k \in -MaxLog .. MaxLog}

LseArrays == UNION {[0 .. n - 1 -> LseVals] : n \in 0 .. MaxLseLen}

LseLen(array) == Cardinality(DOMAIN array)

LseCall(fn, array, size, array_max, a, b) ==
    [pc |-> "call", fn |-> fn, array |-> array, size |-> size,
     array_max |-> array_max, a |-> a, b |-> b,
     out |-> LseReturn(NaN, array)]

LseInit ==
    /\ \/ \E fn \in {"_logsumexp", "_logsumexp_kahan_inplace"} :
          \E array \in LseArrays : \E size \in {0, LseLen(array)} :
          \E array_max \in LseVals :
              lse = LseCall(fn, array, size, array_max, NaN, NaN)
       \/ \E fn \in {"_logsumexp_sort_inplace", "_logsumexp_sort_kahan_inplace"} :
          \E array \in LseArrays : \E size \in {0, LseLen(array)} :
              lse = LseCall(fn, array, size, NaN, NaN, NaN)
       \/ \E a \in LseVals : \E b \in LseVals :
              lse = LseCall("_logsumexp_pair", <<>>, 0, NaN, a, b)
    /\ sortIn = Idle
    /\ sort = Idle
    /\ kh = Idle
    /\ bp = Idle
    /\ rn = Idle

LseDo(fn, out) ==
    /\ lse.pc = "call"
    /\ lse.fn = fn
    /\ lse' = [lse EXCEPT !.out = out, !.pc = "done"]
    /\ UNCHANGED <<sortIn, sort, kh, bp, rn>>

CallLogsumexp ==
    LseDo("_logsumexp", _logsumexp(lse.array, lse.size, lse.array_max))

CallKahanInplace ==
    LseDo("_logsumexp_kahan_inplace",
          _logsumexp_kahan_inplace(lse.array, lse.size, lse.array_max))

CallSortInplace ==
    LseDo("_logsumexp_sort_inplace", _logsumexp_sort_inplace(lse.array, lse.size))

CallSortKahanInplace ==
    LseDo("_logsumexp_sort_kahan_inplace",
          _logsumexp_sort_kahan_inplace(lse.array, lse.size))

CallPair == LseDo("_logsumexp_pair", _logsumexp_pair(lse.a, lse.b))

LseNext ==
    \/ CallLogsumexp
    \/ CallKahanInplace
    \/ CallSortInplace
    \/ CallSortKahanInplace
    \/ CallPair

LseSpec == LseInit /\ [][LseNext]_vars

(***************************************************************************)
(* A call of _get_therm_state_break_points on a label sequence of length   *)
(* N >= 1, with an output buffer of N entries holding whatever it held.    *)
(***************************************************************************)
\* the longest label sequence
MaxSeqLen == 5

\* the labels are 0 .. MaxLabel
MaxLabel == 2

\* the sequence of the documentation: [0,0,0,1,1,2,2,2,2]
BpExample == [i \in 0 .. 8 |-> IF i < 3 THEN 0 ELSE IF i < 5 THEN 1 ELSE 2]

BpSequences ==
    UNION {[0 .. n - 1 -> 0 .. MaxLabel] : n \in 1 .. MaxSeqLen} \cup {BpExample}

BpInit ==
    /\ \E T_x \in BpSequences : \E junk \in {-1, 0} :
           bp = [pc |-> "enter", T_x |-> T_x, seq_length |-> Cardinality(DOMAIN T_x),
                 break_points |-> [k \in DOMAIN T_x |-> junk], junk |-> junk,
                 i |-> 0, K |-> 0, o |-> 0, ret |-> 0]
    /\ sortIn = Idle
    /\ sort = Idle
    /\ kh = Idle
    /\ lse = Idle
    /\ rn = Idle

BpStart ==
    /\ bp.pc = "enter"
    /\ bp' = BpEnter(bp)
    /\ UNCHANGED <<sortIn, sort, kh, lse, rn>>

BpLoop ==
    /\ bp.pc = "loop"
    /\ bp.i < bp.seq_length
    /\ bp' = BpPass(bp)
    /\ UNCHANGED <<sortIn, sort, kh, lse, rn>>

BpExit ==
    /\ bp.pc = "loop"
    /\ ~(bp.i < bp.seq_length)
    /\ bp' = BpReturn(bp)
    /\ UNCHANGED <<sortIn, sort, kh, lse, rn>>

BpNext ==
    \/ BpStart
    \/ BpLoop
    \/ BpExit

BpSpec == BpInit /\ [][BpNext]_vars

(***************************************************************************)
(* A caller of _renormalize_transition_matrix: an n x n matrix of quarters *)
(* and a scratch buffer of n entries holding whatever it held; the caller  *)
(* renormalizes the matrix in place, again and again.  before is the       *)
(* matrix as it was when the last call was made.                           *)
(***************************************************************************)
\* the largest dimension n of the matrix
MaxN == 3

\* entry (i, j) is ((a*i + b*j + c) % (MaxEntry + 1) - shift) / 4, for a, b,
\* c and shift in 0 .. MaxEntry
MaxEntry == 3

\* the number of calls the caller makes
MaxCalls == 2

Matrix(n, a, b, c, shift) ==
    [x \in 0 .. n * n - 1 |->
        LET i == x \div n
            j == x % n
        IN  Rnd(((a * i + b * j + c) % (MaxEntry + 1)) - shift, -2)]

RenormInit ==
    /\ \E n \in 1 .. MaxN : \E a, b, c, shift \in 0 .. MaxEntry :
       \E junk \in {Zero, NaN} :
           rn = [pc |-> "caller", n |-> n, p |-> Matrix(n, a, b, c, shift),
                 scratch_M |-> [j \in 0 .. n - 1 |-> junk],
                 before |-> Matrix(n, a, b, c, shift), max_sum |-> Zero,
                 calls |-> 0]
    /\ sortIn = Idle
    /\ sort = Idle
    /\ kh = Idle
    /\ lse = Idle
    /\ bp = Idle

Renormalize ==
    /\ rn.pc = "caller"
    /\ rn.calls < MaxCalls
    /\ LET out == _renormalize_transition_matrix(rn.p, rn.n, rn.scratch_M)
       IN  rn' = [rn EXCEPT !.p = out.p, !.scratch_M = out.scratch_M,
                            !.max_sum = out.max_sum, !.before = rn.p,
                            !.calls = rn.calls + 1]
    /\ UNCHANGED <<sortIn, sort, kh, lse, bp>>

RenormNext == Renormalize

RenormSpec == RenormInit /\ [][RenormNext]_vars

(***************************************************************************)
(* Claims about _mixed_sort, under SortSpec.                               *)
(***************************************************************************)
SortRange == sortIn.L .. sortIn.R

\* the number of positions of the range at which array holds v
CountIn(array, v) == Cardinality({i \in SortRange : array[i] = v})

NonDecreasing(array) ==
    \A i \in SortRange : (i + 1 \in SortRange) => ~Lt(array[i + 1], array[i])

SamePermutation(a, b) ==
    \A v \in {a[i] : i \in SortRange} \cup {b[i] : i \in SortRange} :
        CountIn(a, v) = CountIn(b, v)

Took(path) == \E c \in sort.calls : c.path = path

\* C2: when _mixed_sort(array, L, R) has returned, the elements at L..R are in
\* non-decreasing order and are a permutation of the elements that were there
\* before the call, on the insertion path and on the quicksort path.
C2_SortedPermutation ==
    sort.pc = "done" =>
        /\ NonDecreasing(sort.array)
        /\ SamePermutation(sort.array, sortIn.array)

\* a returned call that partitioned, and sorted a part by insertion, a range that
\* held duplicates and was not in order
C2_Witness ==
    /\ sort.pc = "done"
    /\ Took("quicksort")
    /\ Took("insertion")
    /\ ~NonDecreasing(sortIn.array)
    /\ \E i, j \in SortRange : i # j /\ sortIn.array[i] = sortIn.array[j]
    /\ sort.array # sortIn.array

RangeLen(c) == c.R - c.L + 1

\* the recursive calls the activation c has made
CallsOf(c) == {[L |-> x.cL, R |-> x.cR] : x \in {y \in sort.recs : y.L = c.L /\ y.R = c.R}}

\* the activation c used insertion sort and made no recursive call
ByInsertion(c) == c.path = "insertion" /\ CallsOf(c) = {}

\* the activation c partitioned and, once all is done, has recursed on [L, l-1]
\* and on [l+1, R] for one position l of its range
ByQuicksort(c) ==
    /\ c.path = "quicksort"
    /\ sort.pc = "done" =>
           \E l \in c.L .. c.R :
               CallsOf(c) = {[L |-> c.L, R |-> l - 1], [L |-> l + 1, R |-> c.R]}

\* every activation of at most small elements used insertion sort, every longer
\* one quicksort
PathsSplitAt(small) ==
    \A c \in sort.calls :
        IF RangeLen(c) <= small THEN ByInsertion(c) ELSE ByQuicksort(c)

\* C9, as claimed: every range of at most 25 elements is sorted by insertion sort
\* with no recursive call, and every range of at least 26 elements by quicksort
\* recursing on both partitions [L, l-1] and [l+1, R].
C9_SplitAt25 == sort.pc # "idle" => PathsSplitAt(25)

\* C9, amended: every range of at most 26 elements (R - L <= 25) is sorted by
\* insertion sort with no recursive call, and every range of at least 27 elements
\* (R - L > 25) by quicksort recursing on both partitions [L, l-1] and [l+1, R].
C9_SplitAt26 == sort.pc # "idle" => PathsSplitAt(26)

\* a returned call that sorted 27 elements by quicksort, one part of 26 elements
\* by insertion
C9_Witness ==
    /\ sort.pc = "done"
    /\ \E c \in sort.calls : RangeLen(c) = 27 /\ c.path = "quicksort"
    /\ \E c \in sort.calls : RangeLen(c) = 26 /\ c.path = "insertion"

\* C10: every read and write of _mixed_sort and of its recursive calls is at an
\* index of [L, R] (none at all for the empty range R = L - 1), and the elements
\* outside [L, R] are never changed.
C10_AccessInRange ==
    sort.pc # "idle" =>
        /\ sort.pc # "fault"
        /\ sort.acc \subseteq SortRange
        /\ \A i \in DOMAIN sortIn.array \ SortRange : sort.array[i] = sortIn.array[i]

\* a returned call on a range with elements on both sides, whose smallest element
\* was the pivot (the scan down from R reaches L) and which touched all of L..R
C10_Witness ==
    /\ sort.pc = "done"
    /\ Took("quicksort")
    /\ sortIn.L > 0
    /\ sortIn.R < Cardinality(DOMAIN sortIn.array) - 1
    /\ sort.acc = SortRange
    /\ \A i \in SortRange : ~Lt(sortIn.array[i], sortIn.array[sortIn.R])
    /\ \E i \in SortRange : Lt(sortIn.array[sortIn.R], sortIn.array[i])

(***************************************************************************)
(* Claims about Kahan summation, under KahanSpec.                          *)
(***************************************************************************)
\* C6: driven with the same values in the same order from sum = 0 and err = 0,
\* the step form's (sum, err) after every prefix is the batch loop's (sum, err)
\* after as many passes, and its final sum is the value _kahan_summation returns.
C6_StepMatchesBatch ==
    kh.pc # "idle" =>
        /\ kh.acc.sum = KahanLoop(kh.array, kh.i).sum
        /\ kh.acc.err = KahanLoop(kh.array, kh.i).err
        /\ kh.pc = "done" => kh.acc.sum = kh.ret

\* both forms have run over an array whose sum was rounded (err is not zero) and
\* differs from the uncompensated sum of the same values in the same order
C6_Witness ==
    /\ kh.pc = "done"
    /\ kh.size = MaxKahanLen
    /\ kh.acc.err # Zero
    /\ kh.acc.loc # kh.array[kh.size - 1]
    /\ kh.acc.sum = kh.ret

(***************************************************************************)
(* Claims about the _logsumexp family, under LseSpec.                      *)
(***************************************************************************)
\* the largest element of array[0 .. size - 1], size > 0
LargestOf(array, size) ==
    CHOOSE v \in {array[i] : i \in 0 .. size - 1} :
        \A i \in 0 .. size - 1 : ~Lt(v, array[i])

\* the call returned -inf and evaluated neither exp nor log
SentinelOnly == lse.out.ret = NegInf /\ lse.out.nexp = 0 /\ lse.out.nlog = 0

LseBySuppliedMax == {"_logsumexp", "_logsumexp_kahan_inplace"}

LseBySort == {"_logsumexp_sort_inplace", "_logsumexp_sort_kahan_inplace"}

\* C7: every array variant returns -inf when size is 0, and when the maximum is
\* -inf (the supplied array_max, or the largest element for the sort variants),
\* without evaluating exp or log; _logsumexp_pair returns -inf when both
\* arguments are -inf.
C7_DegenerateIsNegInf ==
    lse.pc = "done" =>
        /\ (lse.fn \in LseBySuppliedMax \cup LseBySort /\ lse.size = 0) => SentinelOnly
        /\ (lse.fn \in LseBySuppliedMax /\ lse.array_max = NegInf) => SentinelOnly
        /\ (lse.fn \in LseBySort /\ lse.size > 0
                /\ LargestOf(lse.array, lse.size) = NegInf) => SentinelOnly
        /\ (lse.fn = "_logsumexp_pair" /\ lse.a = NegInf /\ lse.b = NegInf)
               => lse.out.ret = NegInf

\* a returned call of _logsumexp on a non-empty array with a finite element,
\* given array_max = -inf
C7_Witness ==
    /\ lse.pc = "done"
    /\ lse.fn = "_logsumexp"
    /\ lse.size = MaxLseLen
    /\ lse.array_max = NegInf
    /\ \E i \in DOMAIN lse.array : IsFin(lse.array[i])
    /\ SentinelOnly

(***************************************************************************)
(* Claims about the break points, under BpSpec.                            *)
(***************************************************************************)
\* the indices at which a run of equal labels starts
RunStarts(T_x) == {i \in DOMAIN T_x : i = 0 \/ T_x[i] # T_x[i - 1]}

\* C3: for a label sequence of length N >= 1 the function returns a count c,
\* 1 <= c <= N, and break_points[0 .. c-1] is the strictly ascending list of the
\* indices i with i = 0 or T_x[i] # T_x[i-1]: break_points[0] = 0 and c is the
\* number of runs.
C3_BreakPoints ==
    bp.pc = "done" =>
        /\ 1 <= bp.ret /\ bp.ret <= bp.seq_length
        /\ bp.ret = Cardinality(RunStarts(bp.T_x))
        /\ bp.break_points[0] = 0
        /\ {bp.break_points[k] : k \in 0 .. bp.ret - 1} = RunStarts(bp.T_x)
        /\ \A k \in 1 .. bp.ret - 1 : bp.break_points[k - 1] < bp.break_points[k]

\* the returned call on [0,0,0,1,1,2,2,2,2]: break points [0,3,5], count 3
C3_Witness ==
    /\ bp.pc = "done"
    /\ bp.T_x = BpExample
    /\ bp.ret = 3
    /\ bp.break_points[0] = 0 /\ bp.break_points[1] = 3 /\ bp.break_points[2] = 5

(***************************************************************************)
(* Claims about the renormalization, under RenormSpec.                     *)
(***************************************************************************)
Dim == 0 .. rn.n - 1

Entry(p, i, j) == p[i * rn.n + j]

\* a + b, not rounded
ExactAdd(a, b) ==
    LET e0 == IF a.e < b.e THEN a.e ELSE b.e
    IN  Fin(a.m * Pow2(a.e - e0) + b.m * Pow2(b.e - e0), e0)

\* the sum of the entries (i, 0) .. (i, j - 1), not rounded
RECURSIVE ExactRowSum(_, _, _)
ExactRowSum(p, i, j) ==
    IF j <= 0 THEN Zero ELSE ExactAdd(ExactRowSum(p, i, j - 1), Entry(p, i, j - 1))

\* |a - b| <= tol, for finite a and b
Within(a, b, tol) ==
    /\ IsFin(a) /\ IsFin(b)
    /\ ~Lt(tol, ExactAdd(a, FNeg(b)))
    /\ ~Lt(tol, ExactAdd(b, FNeg(a)))

\* the floating noise allowed: four units in the last place of 1.0
Noise == Fin(1, 3 - Precision)

Nonnegative(p) == \A x \in DOMAIN p : IsFin(p[x]) /\ p[x].m >= 0

\* the sum of row i as the kernels compute it: sorted, then Kahan-summed
RowSum(p, i) ==
    _kahan_summation(_mixed_sort([j \in Dim |-> Entry(p, i, j)], 0, rn.n - 1), rn.n)

\* the largest row sum of p
MaxRowSum(p) ==
    CHOOSE s \in {RowSum(p, i) : i \in Dim} : \A i \in Dim : ~Lt(s, RowSum(p, i))

Called == rn.pc = "caller" /\ rn.calls > 0

\* C1: after a call on a nonnegative matrix whose largest row sum is > 0, every
\* row of p sums to 1.0 (up to floating noise), whatever scratch_M held.
C1_RowsSumToOne ==
    (Called /\ Nonnegative(rn.before) /\ Gt(MaxRowSum(rn.before), Zero)) =>
        \A i \in Dim : Within(ExactRowSum(rn.p, i, rn.n), One, Noise)

\* C4: if the largest row sum of p is <= 0, the call changes no entry of p.
C4_DegenerateUnchanged ==
    (Called /\ ~Gt(MaxRowSum(rn.before), Zero)) => rn.p = rn.before

\* a call on a matrix with entries of both signs, none of whose rows sums to
\* more than 0, has returned
C4_Witness ==
    /\ Called
    /\ ~Gt(MaxRowSum(rn.before), Zero)
    /\ \E x \in DOMAIN rn.before : Gt(rn.before[x], Zero)
    /\ \E x \in DOMAIN rn.before : Lt(rn.before[x], Zero)
    /\ rn.n = MaxN
    /\ rn.p = rn.before

\* every row of p is nonnegative and sums to exactly 1
Normalized(p) ==
    /\ Nonnegative(p)
    /\ \A i \in Dim : ExactRowSum(p, i, rn.n) = One

\* C5: a call on an already-normalized matrix leaves every entry unchanged (up
\* to floating noise).
C5_Idempotent ==
    (Called /\ Normalized(rn.before)) =>
        \A x \in DOMAIN rn.p : Within(rn.p[x], rn.before[x], Noise)

\* C8: when the largest row sum max_sum is > 0, every off-diagonal entry is,
\* after the call, its value before the call divided by max_sum, the one divisor
\* of all rows; only the diagonal is computed otherwise.
C8_OffDiagonalScaled ==
    (Called /\ Gt(MaxRowSum(rn.before), Zero)) =>
        \A i, j \in Dim :
            i # j => Entry(rn.p, i, j) = FDiv(Entry(rn.before, i, j), MaxRowSum(rn.before))

\* a call has rescaled a matrix whose rows have different sums, none of them 1:
\* a row that is not the largest has an off-diagonal entry that is not 0
C8_Witness ==
    /\ Called
    /\ Gt(MaxRowSum(rn.before), Zero)
    /\ MaxRowSum(rn.before) # One
    /\ \E i, j \in Dim :
          /\ i # j
          /\ RowSum(rn.before, i) # MaxRowSum(rn.before)
          /\ Entry(rn.before, i, j) # Zero
          /\ Entry(rn.p, i, j) # Entry(rn.before, i, j)
=============================================================================
